---- MODULE Spec2Model ----
(***************************************************************************)
(* The active-location multi-domain refresh pipeline of the DataViento     *)
(* dashboard: the DOMContentLoaded handler, refreshAllCharts and its       *)
(* loaders (dashboard page script), WeatherApiClient.fetchData (auth.js),  *)
(* the chart update functions (weather-charts script) and removeLocation   *)
(* (settings.js).                                                          *)
(*                                                                         *)
(* JavaScript runs each handler to completion; the only suspension points  *)
(* are the awaits.  A refresh therefore launches all its fetches in one    *)
(* step, and each response is applied in one later step.                   *)
(***************************************************************************)
EXTENDS Integers, Sequences, FiniteSets, TLC

\* ---------------------------------------------------------------- bounds
MaxLocations == 2   \* saved locations the backend may return
MaxCycles    == 2   \* calls of refreshAllCharts explored
MaxRows      == 2   \* rows in the data array of one response

\* ------------------------------------------------------- program constants
NoLocation == 0     \* activeLocationId = null (falsy)

\* ------------------------------------------------------------- loaders
\* The loaders refreshAllCharts calls.  The ten loaders of the source share
\* one prologue (the lookup of the active location) and come in three
\* shapes after the await:
\*   cards + error slot            loadCurrent{Weather,AirQuality,Marine}Data
\*   charts only, errors logged    the daily and hourly loaders
\*   cards + charts + error slot   loadClimateProjectionData
\* The tables below describe the loaders named in Loaders: a chart loader
\* and the climate loader, of two different domains.
Loaders == {"DailyWeather", "ClimateProjection"}

Domains == {"weather", "air-quality", "marine", "satellite", "climate"}

LoaderDomain(l) ==
  CASE l = "DailyWeather"      -> "weather"
    [] l = "ClimateProjection" -> "climate"

\* The card containers written by the loaders and by the show...Error functions.
Containers == {"currentWeatherCards", "currentAirQualityCards",
               "currentMarineCards", "climateModelInfo"}

NoContainer == "none"

\* The container a loader's success path fills with cards (none for chart loaders).
LoaderCards(l) ==
  CASE l = "ClimateProjection" -> "climateModelInfo"
    [] OTHER                   -> NoContainer

\* Every catch block calling the same show...Error function.
ErrorSlotShared(l) == "currentAirQualityCards"

\* The container a loader's catch block (and its no-data branch) writes the
\* message to: showClimateError for the climate loader; the daily and hourly
\* loaders only log to the console.
ErrorSlot(l) ==
  CASE l = "ClimateProjection" -> "climateModelInfo"
    [] OTHER                   -> NoContainer

\* The container in which a domain shows its inline messages.
DomainSlot(d) ==
  CASE d = "weather"     -> "currentWeatherCards"
    [] d = "air-quality" -> "currentAirQualityCards"
    [] d = "marine"      -> "currentMarineCards"
    [] d = "climate"     -> "climateModelInfo"
    [] OTHER             -> NoContainer

\* The chart instances a loader's success path updates.
LoaderCharts(l) ==
  CASE l = "DailyWeather" ->
         {"weatherDailyChart", "weatherPrecipChart", "weatherUvChart", "weatherWindChart"}
    [] l = "ClimateProjection" ->
         {"climateTempTrendsChart", "climatePrecipHumidityChart", "climateWindRadiationChart"}
    [] OTHER -> {}

Charts == UNION {LoaderCharts(l) : l \in Loaders}

ChartDomain(c) == LoaderDomain(CHOOSE l \in Loaders : c \in LoaderCharts(l))

\* The domain whose cards and messages a container shows.
ContainerDomain(c) ==
  CASE c = "currentWeatherCards"    -> "weather"
    [] c = "currentAirQualityCards" -> "air-quality"
    [] c = "currentMarineCards"     -> "marine"
    [] c = "climateModelInfo"       -> "climate"

\* ------------------------------------------------------------ locations
UserLocIds == 1..MaxLocations

\* A saved location as returned by GET /users/me/locations.  The backend
\* location row has its own id, different from the user's binding id.
BackendLocationId(u) == 10 + u

UserLoc(u, p) ==
  [user_location_id |-> u, location_id |-> BackendLocationId(u), is_primary |-> p]

\* The saved-location lists the backend returns: any subset of the user's
\* bindings, in id order, with at most one flagged primary.
RECURSIVE ListOf(_, _)
ListOf(S, prim) ==
  IF S = {} THEN <<>>
  ELSE LET u == CHOOSE x \in S : \A y \in S : x <= y
       IN <<UserLoc(u, u = prim)>> \o ListOf(S \ {u}, prim)

SavedLists == {ListOf(S, p) : S \in SUBSET UserLocIds, p \in UserLocIds \cup {NoLocation}}

\* Array.prototype.find on user_location_id: index of the first match, 0 if none.
FindUserLoc(list, id) ==
  LET S == {i \in 1..Len(list) : list[i].user_location_id = id}
  IN IF S = {} THEN 0 ELSE CHOOSE i \in S : \A j \in S : i <= j

\* A loader that passes the user's binding id where the backend id is meant.
ResolveByUserId(active, list) ==
  IF active = NoLocation THEN NoLocation
  ELSE LET i == FindUserLoc(list, active)
       IN IF i = 0 THEN NoLocation ELSE list[i].user_location_id

\* A loader that falls back to the active id when the lookup finds nothing
\* (as the chat widget does: userLoc?.location_id || activeLocationId).
ResolveWithFallback(active, list) ==
  IF active = NoLocation THEN NoLocation
  ELSE LET i == FindUserLoc(list, active)
       IN IF i = 0 THEN active ELSE list[i].location_id

\* The lookup every loader does before it fetches: the backend location_id of
\* the active userLocationId, or NoLocation when the cycle's work is skipped.
ResolveLocationId(active, list) ==
  IF active = NoLocation THEN NoLocation
  ELSE LET i == FindUserLoc(list, active)
       IN IF i = 0 THEN NoLocation ELSE list[i].location_id

\* populateLocationSelector: the options, the option shown as selected and
\* activeLocationId.  The last option flagged primary is selected; with no
\* option flagged the browser shows the first option and activeLocationId
\* stays null.
RECURSIVE LastPrimary(_)
LastPrimary(list) ==
  IF list = <<>> THEN NoLocation
  ELSE IF list[Len(list)].is_primary THEN list[Len(list)].user_location_id
  ELSE LastPrimary(SubSeq(list, 1, Len(list) - 1))

PopulateLocationSelector(list) ==
  [options  |-> {list[i].user_location_id : i \in 1..Len(list)},
   selected |-> IF list = <<>> THEN NoLocation
                ELSE IF LastPrimary(list) # NoLocation THEN LastPrimary(list)
                ELSE list[1].user_location_id,
   active   |-> LastPrimary(list)]


\* --------------------------------------------------------- fetchData
\* What the network answers to one GET.  `detail` is "" when the body has
\* no detail field; `data` is the body's data field: null, the empty array,
\* a non-empty payload ("rows"), or a non-empty payload one of whose records
\* has no valid_date ("undated").
Detail == "service unavailable"

Response(net, status, parse, success, detail, data) ==
  [net |-> net, status |-> status, parse |-> parse, success |-> success,
   detail |-> detail, data |-> data]

Responses ==
  {Response("down", 0, FALSE, FALSE, "", "null")}
  \cup {Response("ok", 401, TRUE, FALSE, "", "null")}
  \cup {Response("ok", 401, TRUE, TRUE, "", "rows")}
  \cup {Response("ok", 503, p, FALSE, d, "null") : p \in BOOLEAN, d \in {"", Detail}}
  \cup {Response("ok", 404, TRUE, FALSE, "", "null")}
  \cup {Response("ok", 200, FALSE, FALSE, "", "null")}
  \cup {Response("ok", 200, TRUE, FALSE, d, "null") : d \in {"", Detail}}
  \cup {Response("ok", 200, TRUE, TRUE, "", k) : k \in {"null", "empty", "rows", "undated"}}

Returned(data) ==
  [threw |-> FALSE, message |-> "", clears |-> FALSE, data |-> data]

Thrown(message, clears) ==
  [threw |-> TRUE, message |-> message, clears |-> clears, data |-> "null"]

NoTokenMessage == "No authentication token found"

\* `HTTP ${response.status}: ${response.statusText}`
HttpMessage(status) ==
  CASE status = 401 -> "HTTP 401: Unauthorized"
    [] status = 404 -> "HTTP 404: Not Found"
    [] status = 503 -> "HTTP 503: Service Unavailable"
    [] OTHER        -> "HTTP"

UnsuccessfulMessage == "API returned unsuccessful response"

\* A fetchData that never reads the body's detail field.
FetchDataGenericOnly(resp) ==
  IF resp.net = "down" THEN Thrown("Failed to fetch", FALSE)
  ELSE IF resp.status # 200 THEN
         IF resp.status = 401 THEN Thrown("Authentication failed", TRUE)
         ELSE Thrown(HttpMessage(resp.status), FALSE)
  ELSE IF ~resp.parse THEN Thrown("Unexpected token in JSON", FALSE)
  ELSE IF ~resp.success THEN Thrown(UnsuccessfulMessage, FALSE)
  ELSE Returned(resp.data)

\* A fetchData that removes the stored tokens on every status that is not ok.
FetchDataClearsOnAnyStatus(resp) ==
  IF resp.net = "down" THEN Thrown("Failed to fetch", FALSE)
  ELSE IF resp.status # 200 THEN
         IF resp.status = 401 THEN Thrown("Authentication failed", TRUE)
         ELSE Thrown(IF resp.parse /\ resp.detail # "" THEN resp.detail
                     ELSE HttpMessage(resp.status), TRUE)
  ELSE IF ~resp.parse THEN Thrown("Unexpected token in JSON", FALSE)
  ELSE IF ~resp.success THEN
         Thrown(IF resp.detail # "" THEN resp.detail ELSE UnsuccessfulMessage, FALSE)
  ELSE Returned(resp.data)

\* A fetchData that treats 401 as any other status that is not ok.
FetchDataNoSessionExpiry(resp) ==
  IF resp.net = "down" THEN Thrown("Failed to fetch", FALSE)
  ELSE IF resp.status # 200 THEN
         Thrown(IF resp.parse /\ resp.detail # "" THEN resp.detail
                ELSE HttpMessage(resp.status), FALSE)
  ELSE IF ~resp.parse THEN Thrown("Unexpected token in JSON", FALSE)
  ELSE IF ~resp.success THEN
         Thrown(IF resp.detail # "" THEN resp.detail ELSE UnsuccessfulMessage, FALSE)
  ELSE Returned(resp.data)

\* WeatherApiClient.fetchData after the token check: the value it returns or
\* the Error it throws for a given answer of the network; `clears` is the
\* removal of the stored tokens and the redirect on 401.
FetchData(resp) ==
  IF resp.net = "down" THEN Thrown("Failed to fetch", FALSE)
  ELSE IF resp.status # 200 THEN
         IF resp.status = 401 THEN Thrown("Authentication failed", TRUE)
         ELSE Thrown(IF resp.parse /\ resp.detail # "" THEN resp.detail
                     ELSE HttpMessage(resp.status), FALSE)
  ELSE IF ~resp.parse THEN Thrown("Unexpected token in JSON", FALSE)
  ELSE IF ~resp.success THEN
         Thrown(IF resp.detail # "" THEN resp.detail ELSE UnsuccessfulMessage, FALSE)
  ELSE Returned(resp.data)

\* ----------------------------------------------------- chart update functions
\* The data arrays of the responses and what the update functions of the
\* chart script make of them.  A row has a date (valid_date of a daily
\* forecast row, created_at of a satellite row) and three measured fields,
\* each a number or null:
\*   a   precipitation_sum               shortwave_radiation
\*   b   precipitation_probability_max   direct_radiation
\*   c   (not read)                      diffuse_radiation
RowDates == {"2025-11-10", "2025-11-11"}

Row(d, a, b, c) == [date |-> d, a |-> a, b |-> b, c |-> c]

Rows == {Row(d, a, b, "7") : d \in RowDates, a \in {"null", "5"}, b \in {"0", "5"}}

RECURSIVE SeqsUpTo(_, _)
SeqsUpTo(S, n) ==
  IF n = 0 THEN {<<>>}
  ELSE LET shorter == SeqsUpTo(S, n - 1)
       IN shorter \cup {Append(q, x) : q \in {t \in shorter : Len(t) = n - 1}, x \in S}

\* The data arrays a response can carry.
Payloads == SeqsUpTo(Rows, MaxRows)

\* date.toLocaleDateString("en-US", {month: "short", day: "numeric", timeZone: "UTC"})
FormatShortDate(d) ==
  CASE d = "2025-11-10" -> "Nov 10"
    [] d = "2025-11-11" -> "Nov 11"

\* value || 0
OrZero(v) == IF v = "null" \/ v = "0" THEN "0" ELSE v

\* The order new Date(a.created_at) - new Date(b.created_at) sorts by.
DateRank(d) ==
  CASE d = "2025-11-10" -> 1
    [] d = "2025-11-11" -> 2

\* [...apiData].sort(by created_at): Array.prototype.sort is stable.
RECURSIVE SortedFrom(_, _)
SortedFrom(rows, k) ==
  IF k > Cardinality(RowDates) THEN <<>>
  ELSE SelectSeq(rows, LAMBDA r : DateRank(r.date) = k) \o SortedFrom(rows, k + 1)

SortedByDate(rows) == SortedFrom(rows, 1)

\* The charts whose data is followed in full and their number of datasets.
ChartsInFull == {"weatherPrecipChart", "satelliteDailyRadiationChart"}

\* new Chart(ctx, {data: {labels: [], datasets: [{data: []}, ...]}})
CreatedChartData(w) ==
  [labels   |-> <<>>,
   datasets |-> IF w = "weatherPrecipChart" THEN << <<>>, <<>> >>
                ELSE << <<>>, <<>>, <<>> >>]

\* An update function that pushes onto the arrays the chart already has.
UpdateWeatherPrecipChartAppending(chart, apiData) ==
  IF apiData = <<>> THEN chart
  ELSE [labels   |-> chart.labels \o [i \in 1..Len(apiData) |-> FormatShortDate(apiData[i].date)],
        datasets |-> << chart.datasets[1] \o [i \in 1..Len(apiData) |-> OrZero(apiData[i].a)],
                        chart.datasets[2] \o [i \in 1..Len(apiData) |-> OrZero(apiData[i].b)] >>]

\* updateWeatherPrecipChart(apiData): an empty array returns early; otherwise
\* labels and both data arrays are built from the rows and assigned.
UpdateWeatherPrecipChart(chart, apiData) ==
  IF apiData = <<>> THEN chart
  ELSE [labels   |-> [i \in 1..Len(apiData) |-> FormatShortDate(apiData[i].date)],
        datasets |-> << [i \in 1..Len(apiData) |-> OrZero(apiData[i].a)],
                        [i \in 1..Len(apiData) |-> OrZero(apiData[i].b)] >>]

\* updateSatelliteDailyRadiationChart(apiData): as above, over a sorted copy.
UpdateSatelliteDailyRadiationChart(chart, apiData) ==
  IF apiData = <<>> THEN chart
  ELSE LET sortedData == SortedByDate(apiData) IN
       [labels   |-> [i \in 1..Len(sortedData) |-> FormatShortDate(sortedData[i].date)],
        datasets |-> << [i \in 1..Len(sortedData) |-> OrZero(sortedData[i].a)],
                        [i \in 1..Len(sortedData) |-> OrZero(sortedData[i].b)],
                        [i \in 1..Len(sortedData) |-> OrZero(sortedData[i].c)] >>]

UpdateChartData(w, chart, apiData) ==
  IF w = "weatherPrecipChart" THEN UpdateWeatherPrecipChart(chart, apiData)
  ELSE UpdateSatelliteDailyRadiationChart(chart, apiData)

\* ------------------------------------------------ daily temperature
\* Daily rows as the temperature and wave charts read them:
\*   a   temperature_2m_max    wave_height_max
\*   b   temperature_2m_min    swell_wave_height_max
\*   c   temperature_2m_mean   wind_wave_height_max
\* "null" stands for a field that is null or absent, "0" for a reading of 0.
DailyRows == {Row(d, a, "9.5", "15") : d \in RowDates, a \in {"null", "0", "21.4"}}

DailyPayloads == SeqsUpTo(DailyRows, MaxRows)

\* The browser's time zone, in hours east of UTC.
TimeZones == {-5, 1}

\* The daily charts followed in full.  The repository has two chart scripts
\* with an updateWeatherDailyChart; "weatherDailyChartEarlier" is the
\* weatherDailyChart of a page that loads js/weather-charts.js.
DailyCharts == {"weatherDailyChart", "weatherDailyChartEarlier",
                "marineDailyWaveChart", "climateTempTrendsChart"}

\* new Date(valid_date).toLocaleDateString("en-US", {month: "short", day:
\* "numeric"}): a date-only string is parsed as midnight UTC and the result is
\* formatted in the browser's zone, which west of UTC is still the day before.
FormatShortDateLocal(d, tz) ==
  IF tz >= 0 THEN FormatShortDate(d)
  ELSE CASE d = "2025-11-10" -> "Nov 9"
         [] d = "2025-11-11" -> "Nov 10"

\* toLocaleDateString("en-US", {month: "short", year: "2-digit", timeZone: "UTC"})
FormatMonthYear(d) ==
  CASE d = "2025-11-10" -> "Nov 25"
    [] d = "2025-11-11" -> "Nov 25"

\* value || null
OrNull(v) == IF v = "null" \/ v = "0" THEN "null" ELSE v

\* daily_data.filter((_, index) => index % 7 === 0)
SampledWeekly(rows) ==
  LET kept == {i \in 1..Len(rows) : (i - 1) % 7 = 0}
  IN  [j \in 1..Cardinality(kept) |-> rows[(j - 1) * 7 + 1]]

CreatedDailyChartData(w) ==
  [labels   |-> <<>>,
   datasets |-> IF w \in {"weatherDailyChart", "weatherDailyChartEarlier"}
                THEN << <<>>, <<>> >>
                ELSE << <<>>, <<>>, <<>> >>]

\* updateWeatherDailyChart(apiData) of the chart script: one label and one
\* point per dataset are pushed for each record, in payload order.
UpdateWeatherDailyChart(chart, apiData) ==
  IF apiData = <<>> THEN chart
  ELSE [labels   |-> [i \in 1..Len(apiData) |-> FormatShortDate(apiData[i].date)],
        datasets |-> << [i \in 1..Len(apiData) |-> OrNull(apiData[i].a)],
                        [i \in 1..Len(apiData) |-> OrNull(apiData[i].b)] >>]

\* updateWeatherDailyChart(apiData) of js/weather-charts.js.
UpdateWeatherDailyChartEarlier(chart, apiData, tz) ==
  IF apiData = <<>> THEN chart
  ELSE [labels   |-> [i \in 1..Len(apiData) |-> FormatShortDateLocal(apiData[i].date, tz)],
        datasets |-> << [i \in 1..Len(apiData) |-> OrNull(apiData[i].a)],
                        [i \in 1..Len(apiData) |-> OrNull(apiData[i].b)] >>]

\* updateMarineDailyWaveChart(apiData)
UpdateMarineDailyWaveChart(chart, apiData) ==
  IF apiData = <<>> THEN chart
  ELSE [labels   |-> [i \in 1..Len(apiData) |-> FormatShortDate(apiData[i].date)],
        datasets |-> << [i \in 1..Len(apiData) |-> OrZero(apiData[i].a)],
                        [i \in 1..Len(apiData) |-> OrZero(apiData[i].b)],
                        [i \in 1..Len(apiData) |-> OrZero(apiData[i].c)] >>]

\* updateClimateTempTrendsChart(apiData), apiData.daily_data being the rows:
\* datasets are max, mean and min of every seventh record.
UpdateClimateTempTrendsChart(chart, dailyData) ==
  IF dailyData = <<>> THEN chart
  ELSE LET sampledData == SampledWeekly(dailyData) IN
       [labels   |-> [i \in 1..Len(sampledData) |-> FormatMonthYear(sampledData[i].date)],
        datasets |-> << [i \in 1..Len(sampledData) |-> OrNull(sampledData[i].a)],
                        [i \in 1..Len(sampledData) |-> OrNull(sampledData[i].c)],
                        [i \in 1..Len(sampledData) |-> OrNull(sampledData[i].b)] >>]

UpdateDailyChart(w, chart, apiData, tz) ==
  CASE w = "weatherDailyChart"        -> UpdateWeatherDailyChart(chart, apiData)
    [] w = "weatherDailyChartEarlier" -> UpdateWeatherDailyChartEarlier(chart, apiData, tz)
    [] w = "marineDailyWaveChart"     -> UpdateMarineDailyWaveChart(chart, apiData)
    [] w = "climateTempTrendsChart"   -> UpdateClimateTempTrendsChart(chart, apiData)

\* ---------------------------------------------------- hourly payloads
\* The data of an hourly response is {parameters: {name: {times, values}}}:
\* per named parameter the instants of its points and their values.  A
\* parameter the backend has no points for has no entry.  An instant is
\* counted in hours from midnight UTC of the first day.
Missing == [present |-> FALSE, times |-> <<>>, values |-> <<>>]

ParamSeries(n) ==
  [present |-> TRUE,
   times   |-> [i \in 1..n |-> i - 1],
   values  |-> [i \in 1..n |-> 10 + i]]

ParamOptions == {Missing} \cup {ParamSeries(n) : n \in 1..MaxRows}

HourlyCharts == {"weatherHourlyTempChart", "airQualityPollutantsChart",
                 "airQualitySecondaryChart", "marineHourlyWaveChart"}

\* The parameters an update function assigns to datasets[0], datasets[1], ...
DatasetParams(w) ==
  CASE w = "weatherHourlyTempChart"    -> <<"temp_2m", "humidity_2m">>
    [] w = "airQualityPollutantsChart" -> <<"pm2_5", "pm10", "no2", "o3">>
    [] w = "airQualitySecondaryChart"  -> <<"so2", "co">>
    [] w = "marineHourlyWaveChart"     -> <<"wave_height", "swell_wave_height", "wind_wave_height">>

\* The parameters an update function reads.
ChartParams(w) ==
  {DatasetParams(w)[k] : k \in 1..Len(DatasetParams(w))}
    \cup (IF w = "marineHourlyWaveChart" THEN {"wave_direction"} ELSE {})

HourlyPayloads(w) == [ChartParams(w) -> ParamOptions]

\* formatHourLabel(timestamp): new Date(timestamp).getHours() is the hour of
\* the instant in the browser's time zone; the label is that hour and ":00".
FormatHourLabel(t, tz) == (t + tz + 24) % 24

\* new Chart(ctx, {data: {labels: [], datasets: [{data: []}, ...]}}); the
\* wave directions are read with ?.[index], absent or empty alike.
CreatedHourlyChartData(w) ==
  [labels         |-> <<>>,
   datasets       |-> [k \in 1..Len(DatasetParams(w)) |-> <<>>],
   waveDirections |-> <<>>]

\* updateWeatherHourlyTempChart, updateAirQualityPollutantsChart,
\* updateAirQualitySecondaryChart, updateMarineHourlyWaveChart: when one of
\* the dataset parameters is missing the function warns and returns;
\* otherwise the labels are made from the times of the first parameter and
\* each dataset is assigned the values array of its own parameter.
UpdateHourlyChart(w, chart, apiData, tz) ==
  LET params == DatasetParams(w) IN
  IF \E k \in 1..Len(params) : apiData[params[k]] = Missing THEN chart
  ELSE [labels         |-> [i \in 1..Len(apiData[params[1]].times) |->
                              FormatHourLabel(apiData[params[1]].times[i], tz)],
        datasets       |-> [k \in 1..Len(params) |-> apiData[params[k]].values],
        waveDirections |-> IF w = "marineHourlyWaveChart"
                              /\ apiData["wave_direction"] # Missing
                           THEN apiData["wave_direction"].values
                           ELSE <<>>]

\* ------------------------------------------------------------- state
VARIABLES
  userLocations,     \* settings.js: the saved-location list
  selectOptions,     \* values of the options of #activeLocationSelect
  selectValue,       \* the option shown as selected
  activeLocationId,  \* dashboard: the active userLocationId, NoLocation for null
  token,             \* localStorage has an access_token
  redirected,        \* window.location.href was set to the login page
  cycle,             \* number of refreshAllCharts calls so far
  inflight,          \* fetches whose response has not arrived
  cards,             \* content of each card container
  charts,            \* series of each chart instance
  rotating,          \* #refreshDataBtn has class "rotating"
  timers,            \* pending one-second timeouts of refreshAllCharts
  instances,         \* per chart variable: how many times `new Chart` built it
  underTest,         \* the chart whose labels and datasets are followed in full
  chartData,         \* its Chart.js data: labels and one data array per dataset
  lastPayload,       \* the apiData its update function was last called with
  reapplied,         \* the last call repeated the payload of the call before
  timeZone,          \* the browser's local time zone, in hours east of UTC
  pc,                \* how far the DOMContentLoaded handler has come
  intervals,         \* interval timers registered with window.setInterval
  unhandled          \* a loader's promise was rejected (nothing handles it)

vars == <<userLocations, selectOptions, selectValue, activeLocationId, token,
          redirected, cycle, inflight, cards, charts, rotating, timers,
          instances, underTest, chartData, lastPayload, reapplied, timeZone,
          pc, intervals, unhandled>>

\* The variables of the refresh pipeline and those of the chart followed in full.
pipelineVars == <<userLocations, selectOptions, selectValue, activeLocationId,
                  token, redirected, cycle, inflight, cards, charts, rotating,
                  timers, instances, pc, intervals, unhandled>>

widgetVars == <<underTest, chartData, lastPayload, reapplied, timeZone>>

Fetch(l, c, loc) == [loader |-> l, cyc |-> c, locationId |-> loc]

LoadingCards == [kind |-> "loading", loc |-> NoLocation, cyc |-> 0, msg |-> ""]
DataCards(loc, c) == [kind |-> "cards", loc |-> loc, cyc |-> c, msg |-> ""]
ErrorCards(m) == [kind |-> "error", loc |-> NoLocation, cyc |-> 0, msg |-> m]

\* A chart created by initializeWeatherCharts has labels: [] and data: [].
\* A series is the zero-point series or the transformed payload of one fetch.
EmptySeries == [empty |-> TRUE, loc |-> NoLocation, cyc |-> 0]
Series(loc, c) == [empty |-> FALSE, loc |-> loc, cyc |-> c]

Init ==
  /\ userLocations \in SavedLists
  /\ selectOptions = PopulateLocationSelector(userLocations).options
  /\ selectValue = PopulateLocationSelector(userLocations).selected
  /\ activeLocationId = PopulateLocationSelector(userLocations).active
  /\ token = TRUE
  /\ redirected = FALSE
  /\ cycle = 0
  /\ inflight = {}
  /\ cards = [c \in Containers |-> LoadingCards]
  /\ charts = [c \in Charts |-> EmptySeries]
  /\ rotating = FALSE
  /\ timers = 0
  /\ instances = [c \in Charts |-> 1]
  /\ unhandled = FALSE
  /\ underTest = "weatherPrecipChart"
  /\ chartData = CreatedChartData("weatherPrecipChart")
  /\ lastPayload = <<>>
  /\ reapplied = FALSE
  /\ timeZone = 0
  /\ pc = "loaded"
  /\ intervals = 1

\* ------------------------------------------------------------ loaders
\* show...Error(message): the container shows the message; a loader without
\* an error slot only logs it.
ShowError(cs, slot, message) ==
  IF slot = NoContainer THEN cs ELSE [cs EXCEPT ![slot] = ErrorCards(message)]

\* The message a loader shows when the body's data is falsy.
NoDataMessage(l) ==
  IF l = "ClimateProjection" THEN "No data available for this location"
  ELSE "No data available"

\* update...Chart(apiData): an empty payload makes the function return early
\* and leaves the chart as it was; otherwise labels and datasets are replaced.
UpdateChart(old, data, loc, c) ==
  IF data = "rows" THEN Series(loc, c) ELSE old

\* updateClimateModelInfo reads data.daily_data.length, which throws a
\* TypeError when data is the empty array.
CardsThrow(l, data) == l = "ClimateProjection" /\ data = "empty"

\* The first chart update of a loader (updateWeatherDailyChart,
\* updateClimateTempTrendsChart) reads day.valid_date.split('-') before it
\* assigns anything, which throws a TypeError on a record without valid_date;
\* updateClimateModelInfo has appended its cards by then.
UpdateThrows(l, data) == data = "undated"

\* A loader whose try block ends after the await, leaving the update calls
\* outside it.
TryCoversFetchOnly(l, phase) == phase = "fetch"

\* The try block of every loader spans the lookup, the awaited fetch and the
\* update calls; the catch block only logs and calls a show...Error function,
\* which returns when its container is missing.
TryCovers(l, phase) == phase \in {"fetch", "update"}

\* The promise of loader l is rejected: fetchData threw (res.threw) or an
\* update function threw, outside the loader's try block.
Rejected(l, res) ==
  \/ res.threw /\ ~TryCovers(l, "fetch")
  \/ /\ ~res.threw
     /\ CardsThrow(l, res.data) \/ UpdateThrows(l, res.data)
     /\ ~TryCovers(l, "update")

\* The response of fetch f takes the loader to its catch block or to the
\* else branch of `if (response && response.data)`.
FailurePath(l, res) ==
  res.threw \/ res.data = "null" \/ CardsThrow(l, res.data) \/ UpdateThrows(l, res.data)

\* A loader whose catch block finds no container to write to, so that the
\* cards appended before a chart update threw stay on the page.
CardsAfterKeepingCards(cs, f, res) ==
  LET l == f.loader IN
  IF res.threw THEN ShowError(cs, ErrorSlot(l), res.message)
  ELSE IF res.data = "null" THEN ShowError(cs, ErrorSlot(l), NoDataMessage(l))
  ELSE IF CardsThrow(l, res.data) THEN
         ShowError(cs, ErrorSlot(l), "Cannot read properties of undefined")
  ELSE IF LoaderCards(l) = NoContainer THEN cs
  ELSE [cs EXCEPT ![LoaderCards(l)] = DataCards(f.locationId, f.cyc)]

\* The part of a loader after its await: the card containers after the
\* response of fetch f was handled.  When an update function throws, the
\* catch block replaces what the container held with the error message.
CardsAfter(cs, f, res) ==
  LET l == f.loader IN
  IF res.threw THEN ShowError(cs, ErrorSlot(l), res.message)
  ELSE IF res.data = "null" THEN ShowError(cs, ErrorSlot(l), NoDataMessage(l))
  ELSE IF CardsThrow(l, res.data) \/ UpdateThrows(l, res.data) THEN
         ShowError(cs, ErrorSlot(l), "Cannot read properties of undefined")
  ELSE IF LoaderCards(l) = NoContainer THEN cs
  ELSE [cs EXCEPT ![LoaderCards(l)] = DataCards(f.locationId, f.cyc)]

\* The chart instances after the response of fetch f was handled.
ChartsAfter(ch, f, res) ==
  LET l == f.loader IN
  IF FailurePath(l, res) THEN ch
  ELSE [c \in Charts |->
          IF c \in LoaderCharts(l)
          THEN UpdateChart(ch[c], res.data, f.locationId, f.cyc)
          ELSE ch[c]]

\* A refreshAllCharts that returns early while a cycle is in progress.
LaunchedCoalesced(infl, c, active, list, tok) ==
  IF infl # {} \/ ResolveLocationId(active, list) = NoLocation \/ ~tok THEN infl
  ELSE infl \cup {Fetch(l, c, ResolveLocationId(active, list)) : l \in Loaders}

\* A refreshAllCharts that awaits each loader before it calls the next: only
\* the first loader's fetch is issued by the call.
LaunchedSequential(infl, c, active, list, tok) ==
  IF ResolveLocationId(active, list) = NoLocation \/ ~tok THEN infl
  ELSE infl \cup {Fetch("DailyWeather", c, ResolveLocationId(active, list))}

\* Loaders that fetch for the first saved location, whichever is active.
LaunchedForFirstSaved(infl, c, active, list, tok) ==
  IF ResolveLocationId(active, list) = NoLocation \/ ~tok THEN infl
  ELSE infl \cup {Fetch(l, c, list[1].location_id) : l \in Loaders}

\* A fetchData that sends the request without looking for a stored token.
LaunchedWithoutTokenCheck(infl, c, active, list, tok) ==
  IF ResolveLocationId(active, list) = NoLocation THEN infl
  ELSE infl \cup {Fetch(l, c, ResolveLocationId(active, list)) : l \in Loaders}

\* The part of the loaders before their await, for all loaders of one
\* refreshAllCharts call: the fetches issued.  A loader returns early when no
\* location is active or the active id is not in the saved list; fetchData
\* throws before the request when no token is stored.
Launched(infl, c, active, list, tok) ==
  LET loc == ResolveLocationId(active, list) IN
  IF loc = NoLocation \/ ~tok THEN infl
  ELSE infl \cup {Fetch(l, c, loc) : l \in Loaders}

\* The card containers after the loaders ran up to their await: without a
\* token every loader that got past the lookup shows fetchData's error.
RECURSIVE ShowAll(_, _, _)
ShowAll(cs, ls, message) ==
  IF ls = {} THEN cs
  ELSE LET l == CHOOSE x \in ls : TRUE
       IN ShowAll(ShowError(cs, ErrorSlot(l), message), ls \ {l}, message)

CardsAtLaunch(cs, active, list, tok) ==
  IF ResolveLocationId(active, list) = NoLocation \/ tok THEN cs
  ELSE ShowAll(cs, Loaders, NoTokenMessage)

\* refreshAllCharts() with `active` the value of activeLocationId it reads.
RefreshAllCharts(active, reason) ==
  /\ cycle < MaxCycles
  /\ cycle' = cycle + 1
  /\ rotating' = TRUE
  /\ timers' = timers + 1
  /\ inflight' = Launched(inflight, cycle + 1, active, userLocations, token)
  /\ cards' = CardsAtLaunch(cards, active, userLocations, token)
  /\ unhandled' = (\/ unhandled
                   \/ /\ ResolveLocationId(active, userLocations) # NoLocation
                      /\ ~token
                      /\ \E l \in Loaders : Rejected(l, Thrown(NoTokenMessage, FALSE)))
  /\ UNCHANGED <<userLocations, selectOptions, token, redirected, charts, instances>>
  /\ UNCHANGED <<pc, intervals>>
  /\ UNCHANGED widgetVars

\* Click on #refreshDataBtn (and the first refresh of the page load).
ManualRefresh ==
  /\ pc = "loaded"
  /\ RefreshAllCharts(activeLocationId, "manual")
  /\ UNCHANGED <<activeLocationId, selectValue>>

\* window.setInterval(refreshAllCharts, 60 * 1000)
IntervalTick ==
  /\ intervals > 0
  /\ RefreshAllCharts(activeLocationId, "interval")
  /\ UNCHANGED <<activeLocationId, selectValue>>

\* handleLocationChange: the user picks another option of the selector.
HandleLocationChange(id) ==
  /\ pc = "loaded"
  /\ id \in selectOptions
  /\ id # selectValue
  /\ selectValue' = id
  /\ activeLocationId' = id
  /\ RefreshAllCharts(id, "location-change")

\* The response of fetch f arrives: fetchData returns or throws and the
\* loader that awaited it continues.
Settle(f, resp) ==
  LET res == FetchData(resp) IN
  /\ f \in inflight
  /\ inflight' = inflight \ {f}
  /\ cards' = CardsAfter(cards, f, res)
  /\ charts' = ChartsAfter(charts, f, res)
  /\ token' = IF res.clears THEN FALSE ELSE token
  /\ redirected' = (redirected \/ res.clears)
  /\ unhandled' = (unhandled \/ Rejected(f.loader, res))
  /\ UNCHANGED <<userLocations, selectOptions, selectValue, activeLocationId,
                 cycle, rotating, timers, instances>>
  /\ UNCHANGED <<pc, intervals>>
  /\ UNCHANGED widgetVars

\* A timeout callback that keeps the class while fetches are outstanding.
RotatingWhilePending(rot, infl) == IF infl = {} THEN FALSE ELSE rot

\* The timeout set by refreshAllCharts fires one second after the call.
RotatingAfterTimeout(rot, infl) == FALSE

TimeoutFires ==
  /\ timers > 0
  /\ timers' = timers - 1
  /\ rotating' = RotatingAfterTimeout(rotating, inflight)
  /\ UNCHANGED <<userLocations, selectOptions, selectValue, activeLocationId,
                 token, redirected, cycle, inflight, cards, charts, instances,
                 unhandled>>
  /\ UNCHANGED <<pc, intervals>>
  /\ UNCHANGED widgetVars

\* settings.js removeLocation(u), confirmed by the user and accepted by the
\* backend: loadUserLocations replaces the list by the backend's, without u.
\* The selector and activeLocationId are not touched.
RemoveLocation(u) ==
  /\ token
  /\ FindUserLoc(userLocations, u) # 0
  /\ userLocations' = SelectSeq(userLocations, LAMBDA x : x.user_location_id # u)
  /\ UNCHANGED <<selectOptions, selectValue, activeLocationId, token, redirected,
                 cycle, inflight, cards, charts, rotating, timers, instances,
                 unhandled>>
  /\ UNCHANGED <<pc, intervals>>
  /\ UNCHANGED widgetVars

Next ==
  \/ ManualRefresh
  \/ IntervalTick
  \/ \E id \in UserLocIds : HandleLocationChange(id)
  \/ \E f \in inflight : \E resp \in Responses : Settle(f, resp)
  \/ TimeoutFires
  \/ \E u \in UserLocIds : RemoveLocation(u)

\* The whole pipeline: every trigger, every answer of the network, the
\* timeouts and the removal of saved locations.
Spec == Init /\ [][Next]_vars

\* The specifications below restrict the environment to what a group of
\* step properties depends on, so that they can be explored with more
\* cycles and locations.

\* Launching depends on the active location, the saved list, the token and
\* the fetches in flight: the network answers with a payload or with 401
\* (which clears the token); the timeouts, which touch only the refresh
\* button, are left out.
LaunchResponses ==
  {r \in Responses : r.data = "rows" /\ (r.status = 401 \/ (r.status = 200 /\ r.success))}

NextLaunch ==
  \/ ManualRefresh
  \/ IntervalTick
  \/ \E id \in UserLocIds : HandleLocationChange(id)
  \/ \E f \in inflight : \E resp \in LaunchResponses : Settle(f, resp)
  \/ \E u \in UserLocIds : RemoveLocation(u)

SpecLaunch == Init /\ [][NextLaunch]_vars

\* What a response changes on screen depends on the cards, the charts and
\* the fetches in flight: one answer of the network per way a fetch can end
\* (transport failure, 401, upstream error, null, empty and non-empty data),
\* without the timeouts and without removals.
DisplayResponses ==
  {r \in Responses :
     \/ r.net = "down"
     \/ (r.status = 401 /\ r.data = "rows")
     \/ (r.status = 503 /\ r.parse /\ r.detail # "")
     \/ (r.status = 200 /\ r.success)}

NextDisplay ==
  \/ ManualRefresh
  \/ IntervalTick
  \/ \E id \in UserLocIds : HandleLocationChange(id)
  \/ \E f \in inflight : \E resp \in DisplayResponses : Settle(f, resp)

SpecDisplay == Init /\ [][NextDisplay]_vars

\* The refresh button depends on the refresh calls, their timeouts and the
\* fetches in flight: the network answers with a payload or with 503.
SpinnerResponses ==
  {r \in Responses : (r.status = 503 /\ r.parse /\ r.detail # "")
                       \/ (r.status = 200 /\ r.success /\ r.data = "rows")}

NextSpinner ==
  \/ ManualRefresh
  \/ IntervalTick
  \/ \E id \in UserLocIds : HandleLocationChange(id)
  \/ \E f \in inflight : \E resp \in SpinnerResponses : Settle(f, resp)
  \/ TimeoutFires

SpecSpinner == Init /\ [][NextSpinner]_vars

\* Whether an outcome is consumed by its loader depends on the answer of the
\* network and on the token, not on which location is active: every answer
\* of the network, with the refreshes of the page load, the button and the
\* interval, and without location changes, removals and timeouts.
NextOutcomes ==
  \/ ManualRefresh
  \/ IntervalTick
  \/ \E f \in inflight : \E resp \in Responses : Settle(f, resp)

SpecOutcomes == Init /\ [][NextOutcomes]_vars

\* The refreshes and the responses whose payload reaches the update part of
\* a loader, with one transport failure for comparison.
ApplyResponses ==
  {r \in Responses : r.net = "down"
                     \/ (r.status = 200 /\ r.success /\ r.data # "empty")}

NextApply ==
  \/ ManualRefresh
  \/ IntervalTick
  \/ \E f \in inflight : \E resp \in ApplyResponses : Settle(f, resp)

SpecApply == Init /\ [][NextApply]_vars

\* ------------------------------------------------------- the page load
\* The DOMContentLoaded handler of the dashboard script, from the event to
\* the registration of the interval.  The handler is suspended at its two
\* awaits (fetchUserData and initializeSettings); what lies between two
\* awaits runs as one step.
InitLoad ==
  /\ userLocations = <<>>
  /\ selectOptions = {}
  /\ selectValue = NoLocation
  /\ activeLocationId = NoLocation
  /\ token \in BOOLEAN
  /\ redirected = FALSE
  /\ cycle = 0
  /\ inflight = {}
  /\ cards = [c \in Containers |-> LoadingCards]
  /\ charts = [c \in Charts |-> EmptySeries]
  /\ rotating = FALSE
  /\ timers = 0
  /\ instances = [c \in Charts |-> 0]
  /\ unhandled = FALSE
  /\ underTest = "weatherPrecipChart"
  /\ chartData = CreatedChartData("weatherPrecipChart")
  /\ lastPayload = <<>>
  /\ reapplied = FALSE
  /\ timeZone = 0
  /\ pc = "start"
  /\ intervals = 0

\* checkAuthentication: without a token the page goes to the login page and
\* the handler returns; otherwise fetchUserData is called and awaited.
DomContentLoaded ==
  /\ pc = "start"
  /\ pc' = IF token THEN "awaitUserData" ELSE "stopped"
  /\ redirected' = (redirected \/ ~token)
  /\ UNCHANGED <<userLocations, selectOptions, selectValue, activeLocationId,
                 token, cycle, inflight, cards, charts, rotating, timers,
                 instances, intervals, unhandled>>
  /\ UNCHANGED widgetVars

\* fetchUserData settles.  "ok": the user data is shown; "unauthorized":
\* fetchUserData removes the tokens, redirects and returns null, and the
\* handler goes on; "failed": fetchUserData throws, the handler alerts,
\* redirects and returns.  The handler then awaits initializeSettings.
UserDataOutcomes == {"ok", "unauthorized", "failed"}

UserDataArrives(outcome) ==
  /\ pc = "awaitUserData"
  /\ pc' = IF outcome = "failed" THEN "stopped" ELSE "awaitSettings"
  /\ token' = IF outcome = "unauthorized" THEN FALSE ELSE token
  /\ redirected' = (redirected \/ outcome # "ok")
  /\ UNCHANGED <<userLocations, selectOptions, selectValue, activeLocationId,
                 cycle, inflight, cards, charts, rotating, timers, instances,
                 intervals, unhandled>>
  /\ UNCHANGED widgetVars

\* The assignment to window.location.href starts a navigation; the page and
\* its suspended handler are gone once the login page has been fetched.
\* Whether that happens before initializeSettings resolves is a race.
NavigationCommits ==
  /\ pc = "awaitSettings"
  /\ redirected
  /\ pc' = "stopped"
  /\ UNCHANGED <<userLocations, selectOptions, selectValue, activeLocationId,
                 token, redirected, cycle, inflight, cards, charts, rotating,
                 timers, instances, intervals, unhandled>>
  /\ UNCHANGED widgetVars

\* populateLocationSelector with the locations of GET /locations/available:
\* a saved location that is not among them gets no option.
PopulateFrom(list, available) ==
  IF available THEN PopulateLocationSelector(list)
  ELSE [options |-> {}, selected |-> NoLocation, active |-> NoLocation]

\* A handler that does not register the interval.
IntervalsNotRegistered(n) == n

\* window.setInterval(refreshAllCharts, 60 * 1000)
IntervalsAfterSetInterval(n) == n + 1

\* A handler that calls refreshAllCharts before populateLocationSelector.
ActiveBeforePopulate(before, populated) == before

\* The handler calls populateLocationSelector, then initializeWeatherCharts,
\* then refreshAllCharts: the loaders of the first refresh read the
\* activeLocationId that populateLocationSelector has assigned.
ActiveAtFirstRefresh(before, populated) == populated

\* initializeSettings resolves (it catches every failure of its loads) with
\* `list` what loadUserLocations left in userLocations and `available`
\* whether loadAvailableLocations got its list.  The handler fills the
\* selector, attaches the listeners, creates the charts, calls
\* refreshAllCharts and registers the interval.
SettingsInitialized(list, available) ==
  LET sel == PopulateFrom(list, available) IN
  /\ pc = "awaitSettings"
  /\ token \/ list = <<>>
  /\ pc' = "loaded"
  /\ userLocations' = list
  /\ selectOptions' = sel.options
  /\ selectValue' = sel.selected
  /\ activeLocationId' = sel.active
  /\ instances' = [c \in Charts |-> instances[c] + 1]
  /\ cycle' = cycle + 1
  /\ rotating' = TRUE
  /\ timers' = timers + 1
  /\ inflight' = Launched(inflight, cycle + 1,
                          ActiveAtFirstRefresh(activeLocationId, sel.active), list, token)
  /\ cards' = CardsAtLaunch(cards, ActiveAtFirstRefresh(activeLocationId, sel.active),
                            list, token)
  /\ intervals' = IntervalsAfterSetInterval(intervals)
  /\ UNCHANGED <<token, redirected, charts, unhandled>>
  /\ UNCHANGED widgetVars

NextLoad ==
  \/ DomContentLoaded
  \/ \E outcome \in UserDataOutcomes : UserDataArrives(outcome)
  \/ NavigationCommits
  \/ \E list \in SavedLists : \E available \in BOOLEAN :
       SettingsInitialized(list, available)
  \/ ManualRefresh
  \/ IntervalTick
  \/ \E id \in UserLocIds : HandleLocationChange(id)
  \/ \E f \in inflight : \E resp \in LaunchResponses : Settle(f, resp)

SpecLoad == InitLoad /\ [][NextLoad]_vars

\* ------------------------------------------------- one chart in full
\* The update function of one chart, called with the data arrays of
\* successive responses; a refresh that finds the backend unchanged calls it
\* again with the payload of the call before.
InitChart ==
  /\ userLocations = <<>>
  /\ selectOptions = {}
  /\ selectValue = NoLocation
  /\ activeLocationId = NoLocation
  /\ token = TRUE
  /\ redirected = FALSE
  /\ cycle = 0
  /\ inflight = {}
  /\ cards = [c \in Containers |-> LoadingCards]
  /\ charts = [c \in Charts |-> EmptySeries]
  /\ rotating = FALSE
  /\ timers = 0
  /\ instances = [c \in Charts |-> 1]
  /\ unhandled = FALSE
  /\ pc = "loaded"
  /\ intervals = 1
  /\ underTest \in ChartsInFull
  /\ chartData = CreatedChartData(underTest)
  /\ lastPayload = <<>>
  /\ reapplied = FALSE
  /\ timeZone = 0

ApplyPayload(apiData) ==
  /\ chartData' = UpdateChartData(underTest, chartData, apiData)
  /\ lastPayload' = apiData
  /\ reapplied' = FALSE
  /\ UNCHANGED <<underTest, timeZone>>
  /\ UNCHANGED pipelineVars

ApplySamePayloadAgain ==
  /\ chartData' = UpdateChartData(underTest, chartData, lastPayload)
  /\ reapplied' = TRUE
  /\ UNCHANGED <<underTest, lastPayload, timeZone>>
  /\ UNCHANGED pipelineVars

NextChart ==
  \/ \E apiData \in Payloads : ApplyPayload(apiData)
  \/ ApplySamePayloadAgain

SpecChart == InitChart /\ [][NextChart]_vars

\* ---------------------------------------------------------- convergence
\* The interval keeps firing for as long as the page is open, and every
\* request is answered in the end.  The responses are those of a backend
\* that has data for every location.
GoodResponses == {r \in Responses : r.status = 200 /\ r.success /\ r.data = "rows"}

\* Every fetch a refresh can issue.
AllFetches ==
  {Fetch(l, c, BackendLocationId(u)) : l \in Loaders, c \in 1..MaxCycles, u \in UserLocIds}

\* The interval fires after the cycle counter has reached its bound: the
\* fetches of this refresh are counted with those of the last cycle counted.
IntervalTickAtBound ==
  /\ intervals > 0
  /\ cycle = MaxCycles
  /\ rotating' = TRUE
  /\ inflight' = Launched(inflight, cycle, activeLocationId, userLocations, token)
  /\ cards' = CardsAtLaunch(cards, activeLocationId, userLocations, token)
  /\ UNCHANGED <<userLocations, selectOptions, selectValue, activeLocationId,
                 token, redirected, cycle, charts, timers, instances, unhandled>>
  /\ UNCHANGED <<pc, intervals>>
  /\ UNCHANGED widgetVars

NextConverge ==
  \/ IntervalTick
  \/ IntervalTickAtBound
  \/ \E id \in UserLocIds : HandleLocationChange(id)
  \/ \E f \in inflight : \E resp \in GoodResponses : Settle(f, resp)

SpecConverge ==
  /\ Init
  /\ [][NextConverge]_vars
  /\ WF_vars(IntervalTick \/ IntervalTickAtBound)
  /\ \A f \in AllFetches : WF_vars(\E resp \in GoodResponses : Settle(f, resp))

\* ---------------------------------------------------- the daily charts
\* The update function of one daily temperature or wave chart, called with
\* the data arrays of successive daily responses.
InitDaily ==
  /\ userLocations = <<>>
  /\ selectOptions = {}
  /\ selectValue = NoLocation
  /\ activeLocationId = NoLocation
  /\ token = TRUE
  /\ redirected = FALSE
  /\ cycle = 0
  /\ inflight = {}
  /\ cards = [c \in Containers |-> LoadingCards]
  /\ charts = [c \in Charts |-> EmptySeries]
  /\ rotating = FALSE
  /\ timers = 0
  /\ instances = [c \in Charts |-> 1]
  /\ unhandled = FALSE
  /\ pc = "loaded"
  /\ intervals = 1
  /\ underTest \in DailyCharts
  /\ chartData = CreatedDailyChartData(underTest)
  /\ lastPayload = <<>>
  /\ reapplied = FALSE
  /\ timeZone \in TimeZones

ApplyDailyPayload(apiData) ==
  /\ chartData' = UpdateDailyChart(underTest, chartData, apiData, timeZone)
  /\ lastPayload' = apiData
  /\ reapplied' = FALSE
  /\ UNCHANGED <<underTest, timeZone>>
  /\ UNCHANGED pipelineVars

NextDaily == \E apiData \in DailyPayloads : ApplyDailyPayload(apiData)

SpecDaily == InitDaily /\ [][NextDaily]_vars

\* --------------------------------------------------- the hourly charts
\* The update function of one hourly chart, called with the data of
\* successive hourly responses.
InitHourly ==
  /\ userLocations = <<>>
  /\ selectOptions = {}
  /\ selectValue = NoLocation
  /\ activeLocationId = NoLocation
  /\ token = TRUE
  /\ redirected = FALSE
  /\ cycle = 0
  /\ inflight = {}
  /\ cards = [c \in Containers |-> LoadingCards]
  /\ charts = [c \in Charts |-> EmptySeries]
  /\ rotating = FALSE
  /\ timers = 0
  /\ instances = [c \in Charts |-> 1]
  /\ unhandled = FALSE
  /\ pc = "loaded"
  /\ intervals = 1
  /\ underTest \in HourlyCharts
  /\ chartData = CreatedHourlyChartData(underTest)
  /\ lastPayload = [p \in ChartParams(underTest) |-> Missing]
  /\ reapplied = FALSE
  /\ timeZone \in TimeZones

ApplyHourlyPayload(apiData) ==
  /\ chartData' = UpdateHourlyChart(underTest, chartData, apiData, timeZone)
  /\ lastPayload' = apiData
  /\ reapplied' = FALSE
  /\ UNCHANGED <<underTest, timeZone>>
  /\ UNCHANGED pipelineVars

NextHourly == \E apiData \in HourlyPayloads(underTest) : ApplyHourlyPayload(apiData)

SpecHourly == InitHourly /\ [][NextHourly]_vars

\* ------------------------------------------- the earlier dashboard script
\* The repository also holds an earlier dashboard script whose
\* refreshAllCharts loads the daily forecast and rebuilds the other charts:
\* it calls loadDailyWeatherData, which updates weatherDailyChart only, and
\* then every create...Chart function that is defined.  Of the functions it
\* names, the chart script defines createWeatherWindChart, which destroys
\* the chart held by weatherWindChart and constructs a new one with no
\* labels and no data.
LegacyLoaders == {"DailyWeather"}

LegacyLoaderCharts == {"weatherDailyChart"}

LegacyRecreated == {"weatherWindChart"}

RefreshAllChartsLegacy(active) ==
  /\ cycle < MaxCycles
  /\ cycle' = cycle + 1
  /\ rotating' = TRUE
  /\ timers' = timers + 1
  /\ inflight' =
       (IF ResolveLocationId(active, userLocations) = NoLocation \/ ~token
        THEN inflight
        ELSE inflight \cup {Fetch(l, cycle + 1, ResolveLocationId(active, userLocations)) :
                              l \in LegacyLoaders})
  /\ instances' = [c \in Charts |->
                     IF c \in LegacyRecreated THEN instances[c] + 1 ELSE instances[c]]
  /\ charts' = [c \in Charts |->
                  IF c \in LegacyRecreated THEN EmptySeries ELSE charts[c]]
  /\ UNCHANGED <<userLocations, selectOptions, token, redirected, cards, unhandled>>
  /\ UNCHANGED <<pc, intervals>>
  /\ UNCHANGED widgetVars

LegacyManualRefresh ==
  /\ RefreshAllChartsLegacy(activeLocationId)
  /\ UNCHANGED <<activeLocationId, selectValue>>

LegacyIntervalTick ==
  /\ RefreshAllChartsLegacy(activeLocationId)
  /\ UNCHANGED <<activeLocationId, selectValue>>

LegacyHandleLocationChange(id) ==
  /\ id \in selectOptions
  /\ id # selectValue
  /\ selectValue' = id
  /\ activeLocationId' = id
  /\ RefreshAllChartsLegacy(id)

\* The earlier loadDailyWeatherData after its await.
LegacySettle(f, resp) ==
  LET res == FetchData(resp) IN
  /\ f \in inflight
  /\ inflight' = inflight \ {f}
  /\ charts' = [c \in Charts |->
                  IF c \in LegacyLoaderCharts /\ ~res.threw /\ res.data # "null"
                  THEN UpdateChart(charts[c], res.data, f.locationId, f.cyc)
                  ELSE charts[c]]
  /\ token' = IF res.clears THEN FALSE ELSE token
  /\ redirected' = (redirected \/ res.clears)
  /\ UNCHANGED <<userLocations, selectOptions, selectValue, activeLocationId,
                 cycle, cards, rotating, timers, instances, unhandled>>
  /\ UNCHANGED <<pc, intervals>>
  /\ UNCHANGED widgetVars

NextLegacy ==
  \/ LegacyManualRefresh
  \/ LegacyIntervalTick
  \/ \E id \in UserLocIds : LegacyHandleLocationChange(id)
  \/ \E f \in inflight : \E resp \in DisplayResponses : LegacySettle(f, resp)

SpecLegacy == Init /\ [][NextLegacy]_vars

TypeOK ==
  /\ activeLocationId \in UserLocIds \cup {NoLocation}
  /\ cycle \in 0..MaxCycles
  /\ timers \in 0..MaxCycles
  /\ \A f \in inflight : f.loader \in Loaders /\ f.cyc \in 1..cycle

\* ======================================================================
\* Properties
\* ======================================================================

\* A step in which refreshAllCharts ran.
RefreshStep == cycle' = cycle + 1

\* The active userLocationId is in the saved list (read after the step).
ActiveIsSaved ==
  \E i \in 1..Len(userLocations) :
    userLocations[i].user_location_id = activeLocationId'

\* The response of fetch f was one that makes fetchData throw.
FailedSettle(f, resp) == Settle(f, resp) /\ FetchData(resp).threw

\* C1: a response is applied only if it was fetched for the location that is
\* active when it arrives: every chart or card container that a step changes
\* to show data shows data of the active location.
C1_NoStaleLocationApplied ==
  [][/\ \A c \in Charts :
          (charts'[c] # charts[c] /\ ~charts'[c].empty)
            => charts'[c].loc = BackendLocationId(activeLocationId')
     /\ \A c \in Containers :
          (cards'[c] # cards[c] /\ cards'[c].kind = "cards")
            => cards'[c].loc = BackendLocationId(activeLocationId')]_vars

\* C2: a widget never goes from showing a newer cycle's result to showing an
\* older cycle's result.
C2_NoOlderCycleOverwrites ==
  [][/\ \A c \in Charts : charts'[c].empty \/ charts'[c].cyc >= charts[c].cyc
     /\ \A c \in Containers :
          (cards[c].kind = "cards" /\ cards'[c].kind = "cards")
            => cards'[c].cyc >= cards[c].cyc]_vars

\* C3 as stated: a trigger that arrives while a fetch of the current cycle
\* has not settled launches no new fetch.
C3_TriggerCoalesced ==
  [][(RefreshStep /\ inflight # {}) => inflight' = inflight]_vars

\* C3 amended: a trigger is never dropped: whenever a token is stored and the
\* active location is in the saved list, refreshAllCharts launches one new
\* fetch per loader, tagged with the new cycle, and leaves the outstanding
\* fetches of earlier cycles in flight.
C3_TriggerAlwaysLaunches ==
  [][(RefreshStep /\ token /\ ActiveIsSaved)
       => /\ inflight \subseteq inflight'
          /\ \A l \in Loaders : \E f \in inflight' \ inflight :
               f.loader = l /\ f.cyc = cycle']_vars

\* C3 witness: fetches of two different cycles are outstanding together.
C3_Witness == \E f, g \in inflight : f.cyc < g.cyc

C5_FailureShownInDomainSlot ==
  [][\A f \in inflight \ inflight' : \A resp \in Responses :
       FailedSettle(f, resp)
         => cards'[DomainSlot(LoaderDomain(f.loader))]
              = ErrorCards(FetchData(resp).message)]_vars

\* C6 as stated: the spinning affordance is not cleared while a fetch of the
\* cycle is outstanding, and it is cleared by the step in which the last
\* outstanding fetch settles.
C6_SpinnerFollowsFetches ==
  /\ [](inflight # {} => rotating)
  /\ [][(inflight # {} /\ inflight' = {}) => ~rotating']_vars

\* C6 amended: the spinning affordance is set by every refreshAllCharts call
\* and is cleared by the one-second timeout of a call, whether or not fetches
\* are outstanding or have failed; nothing else clears it.
C6_SpinnerClearedByTimeout ==
  [][/\ RefreshStep => rotating'
     /\ timers' = timers - 1 => ~rotating'
     /\ (rotating /\ ~rotating') => timers' = timers - 1]_vars

\* C6 witness: the spinner was cleared while fetches are still outstanding.
C6_Witness == cycle > 0 /\ ~rotating /\ inflight # {}

\* C7: after a switch of the active location in mid-cycle, a widget that
\* holds the new location's result of the new cycle keeps the new location's
\* result for as long as no further cycle starts.
C7_NewLocationResultsStay ==
  [][\A c \in Charts :
       (/\ ~charts[c].empty
        /\ charts[c].cyc = cycle
        /\ charts[c].loc = BackendLocationId(activeLocationId)
        /\ \E f \in inflight : f.cyc < cycle /\ f.locationId # charts[c].loc
        /\ ~RefreshStep)
         => charts'[c].loc = charts[c].loc]_vars

\* C8: every fetch a refreshAllCharts call launches carries the location_id
\* of the saved-list entry whose user_location_id is the active one when the
\* call runs; all fetches of one call carry the same location_id.
C8_CycleUsesActiveLocation ==
  [][RefreshStep
       => /\ \A f \in inflight' \ inflight :
               /\ f.cyc = cycle'
               /\ \E i \in 1..Len(userLocations) :
                    /\ userLocations[i].user_location_id = activeLocationId'
                    /\ userLocations[i].location_id = f.locationId
          /\ \A f, g \in inflight' \ inflight : f.locationId = g.locationId]_vars

\* C8 witness: a later cycle fetches for another location than an earlier
\* cycle whose fetches are still outstanding.
C8_Witness ==
  \E f, g \in inflight :
    /\ f.cyc < g.cyc
    /\ f.locationId # g.locationId
    /\ g.locationId = BackendLocationId(activeLocationId)

\* C9: a refreshAllCharts call with no active location, or with an active id
\* that is not in the saved list, issues no request and changes no card
\* container and no chart.
C9_CycleSkipped ==
  [][(RefreshStep /\ ~ActiveIsSaved)
       => /\ inflight' = inflight
          /\ cards' = cards
          /\ charts' = charts]_vars

\* C9 witness: the active id was removed from the saved list, a refresh ran,
\* and nothing was requested or shown.
C9_Witness ==
  /\ cycle > 0
  /\ activeLocationId # NoLocation
  /\ FindUserLoc(userLocations, activeLocationId) = 0
  /\ inflight = {}
  /\ \A c \in Containers : cards[c] = LoadingCards
  /\ \A c \in Charts : charts[c] = EmptySeries

\* C10: a response with success true and data [] leaves every chart bound to
\* the fetch with a zero-point series and the loader's slot without an error.
C10_EmptyPayloadClearsWidgets ==
  [][\A f \in inflight \ inflight' : \A resp \in Responses :
       (/\ Settle(f, resp)
        /\ resp.net = "ok" /\ resp.status = 200 /\ resp.parse /\ resp.success
        /\ resp.data = "empty")
         => /\ \A c \in LoaderCharts(f.loader) : charts'[c].empty
            /\ ErrorSlot(f.loader) # NoContainer
                 => cards'[ErrorSlot(f.loader)].kind # "error"]_vars

\* C11: no domain blocks another.  A refreshAllCharts call that launches
\* fetches launches one per loader in the same step, before any response is
\* awaited; the response of any outstanding fetch can be applied at once,
\* whatever else is outstanding, and applying it settles that fetch alone;
\* an interval tick can start a refresh whatever is outstanding.
C11_NoDomainBlocks ==
  /\ [](\A f \in inflight : \A resp \in LaunchResponses : ENABLED Settle(f, resp))
  /\ []((intervals > 0 /\ cycle < MaxCycles) => ENABLED IntervalTick)
  /\ [][RefreshStep
         => \/ inflight' = inflight
            \/ \A l \in Loaders : \E f \in inflight' \ inflight :
                 f.loader = l /\ f.cyc = cycle']_vars
  /\ [][\A f \in inflight \ inflight' :
         /\ inflight' = inflight \ {f}
         /\ \A resp \in LaunchResponses :
              (Settle(f, resp) /\ ~FetchData(resp).threw)
                => \A c \in LoaderCharts(f.loader) :
                     charts'[c] = Series(f.locationId, f.cyc)]_vars

\* C11 witness: a fetch of the first cycle is still outstanding, its sibling
\* of the same cycle has shown its result, and a second cycle has launched.
C11_Witness ==
  \E f, g \in inflight :
    /\ f.loader = "DailyWeather" /\ f.cyc = 1
    /\ cards["climateModelInfo"] = DataCards(f.locationId, 1)
    /\ g.cyc = 2

\* C12: no outcome of a fetch leaves a loader as a rejected promise: a
\* missing token, a transport failure, any HTTP status, an unparseable body,
\* success false and a payload the update functions throw on are all
\* consumed by the catch block of the loader that launched the fetch.
C12_NothingEscapes == ~unhandled

\* C12 witness: a 401 cleared the token, a later refresh ran without a token
\* and showed fetchData's error, and nothing is outstanding.
C12_Witness ==
  /\ ~token
  /\ cycle = 2
  /\ inflight = {}
  /\ cards["climateModelInfo"] = ErrorCards(NoTokenMessage)

\* C13: a response with status 401 makes the fetch fail, removes the stored
\* tokens and redirects to the login page; whatever its body carries, no
\* chart changes and no card container is given cards.
C13_SessionExpiredOn401 ==
  [][\A f \in inflight \ inflight' :
     \A resp \in {r \in Responses : r.net = "ok" /\ r.status = 401} :
       Settle(f, resp)
         => /\ FetchData(resp).threw
            /\ ~token'
            /\ redirected'
            /\ charts' = charts
            /\ \A c \in Containers :
                 cards'[c].kind = "cards" => cards'[c] = cards[c]]_vars

\* C13 witness: the climate fetch was answered with 401: the token is gone,
\* the page was redirected and the climate area shows the failure.
C13_Witness ==
  /\ ~token
  /\ redirected
  /\ cards["climateModelInfo"] = ErrorCards("Authentication failed")

\* C14: a refreshAllCharts call that finds no stored access token issues no
\* request, for any loader; every loader that got as far as fetchData fails
\* at once, and the loaders with an error slot show fetchData's message.
C14_NoTokenNoRequest ==
  [][(RefreshStep /\ ~token)
       => /\ inflight' = inflight
          /\ ActiveIsSaved
               => \A l \in Loaders :
                    ErrorSlot(l) # NoContainer
                      => cards'[ErrorSlot(l)] = ErrorCards(NoTokenMessage)]_vars

\* C14 witness: a refresh ran without a token while fetches of an earlier
\* cycle were still outstanding; it added none and showed fetchData's error.
C14_Witness ==
  /\ ~token
  /\ inflight # {}
  /\ \A f \in inflight : f.cyc < cycle
  /\ cards["climateModelInfo"] = ErrorCards(NoTokenMessage)

\* The backend was reached and reports failure: a status that is neither ok
\* nor 401, or an ok status whose body has success false.
UpstreamFailure(resp) ==
  /\ resp.net = "ok"
  /\ \/ resp.status \notin {200, 401}
     \/ resp.status = 200 /\ resp.parse /\ ~resp.success

C16_FetchLeavesStorage ==
  [][(RefreshStep \/ inflight' # inflight) => token' = token]_vars

\* C16 amended: issuing the requests changes nothing in localStorage, and a
\* response changes it only when its status is 401, in which case the stored
\* tokens are removed; every other outcome (payload, other status, success
\* false, unparseable body, transport failure) leaves the tokens in place.
C16_StorageChangedOnlyBy401 ==
  [][/\ RefreshStep => token' = token
     /\ \A f \in inflight \ inflight' :
          token' # token
            => /\ ~token'
               /\ \E resp \in {r \in Responses : r.status = 401} : Settle(f, resp)
               /\ \A resp \in {r \in Responses : r.status # 401} : ~Settle(f, resp)]_vars

\* C16 witness: both fetches of a cycle have failed, the climate area shows
\* an upstream failure, and the token is still stored.
C16_Witness ==
  /\ token
  /\ cycle > 0
  /\ inflight = {}
  /\ cards["climateModelInfo"] = ErrorCards(HttpMessage(503))
  /\ \A c \in Charts : charts[c].empty

\* C17: every chart variable holds the instance that was constructed for it
\* when the charts were initialised: no refresh, whatever triggers it,
\* destroys a chart or constructs another one in its place.
C17_ChartCreatedOnce == \A c \in Charts : instances[c] = 1

\* C18: calling the update function of a chart a second time with the
\* payload of the call before leaves the labels and every data array of the
\* chart as the first call left them.
C18_UpdateIdempotent ==
  [][reapplied' => chartData' = chartData]_vars

\* C18 witness: a payload of more than one row was applied twice in a row.
C18_Witness ==
  /\ reapplied
  /\ Len(lastPayload) > 1
  /\ Len(chartData.labels) = Len(lastPayload)

C20_ActiveIsPrimaryAfterLoad ==
  [][(pc = "awaitSettings" /\ pc' = "loaded" /\ userLocations' # <<>>)
       => /\ activeLocationId' # NoLocation
          /\ \E i \in 1..Len(userLocations') :
               /\ userLocations'[i].user_location_id = activeLocationId'
               /\ userLocations'[i].is_primary]_vars

\* C21: after every widget update each dataset of the widget has exactly as
\* many values as the widget has labels, for every payload the backend can
\* return, hourly payloads whose parameters differ in their number of
\* points included.
C21_DatasetsMatchLabels ==
  underTest \in HourlyCharts =>
    \A k \in DOMAIN chartData.datasets :
      Len(chartData.datasets[k]) = Len(chartData.labels)

\* C24: when an hourly air-quality payload lacks one optional pollutant
\* parameter, the transformer does not throw and omits only that pollutant:
\* the widget is updated with labels and with the series of the pollutants
\* that are present.
C24_MissingPollutantOmitted ==
  LET params  == DatasetParams(underTest)
      missing == {k \in 1..Len(params) : lastPayload[params[k]] = Missing}
  IN  (/\ underTest \in {"airQualityPollutantsChart", "airQualitySecondaryChart"}
       /\ Cardinality(missing) = 1)
      => /\ chartData.labels # <<>>
         /\ \A k \in 1..Len(params) :
              k \notin missing => chartData.datasets[k] = lastPayload[params[k]].values

\* C22: for a daily weather payload of n records the daily temperature
\* widget gets n points in payload order: the i-th label is the short
\* month/day of the i-th valid_date as a UTC calendar day, whatever the local
\* time zone, and the i-th max and min values are the record's
\* temperature_2m_max and temperature_2m_min.
C22_DailyTemperaturePoints ==
  (underTest \in {"weatherDailyChart", "weatherDailyChartEarlier"} /\ lastPayload # <<>>)
  => /\ chartData.labels =
          [i \in 1..Len(lastPayload) |-> FormatShortDate(lastPayload[i].date)]
     /\ chartData.datasets[1] = [i \in 1..Len(lastPayload) |-> lastPayload[i].a]
     /\ chartData.datasets[2] = [i \in 1..Len(lastPayload) |-> lastPayload[i].b]

\* C23: in the series built from daily records a temperature point is null
\* exactly when the record's temperature field is missing, so a present
\* reading, 0 included, appears unchanged; a wave-height point is 0 when the
\* field is missing and the field's value otherwise.
C23_MissingFieldMarkers ==
  lastPayload # <<>> =>
    CASE underTest \in {"weatherDailyChart", "weatherDailyChartEarlier"} ->
           \A i \in 1..Len(lastPayload) :
             chartData.datasets[1][i] = lastPayload[i].a
      [] underTest = "climateTempTrendsChart" ->
           \A i \in 1..Len(chartData.datasets[1]) :
             chartData.datasets[1][i] = SampledWeekly(lastPayload)[i].a
      [] underTest = "marineDailyWaveChart" ->
           \A i \in 1..Len(lastPayload) :
             chartData.datasets[1][i] =
               IF lastPayload[i].a = "null" THEN "0" ELSE lastPayload[i].a
      [] OTHER -> TRUE

AllShowActive ==
  LET loc == ResolveLocationId(activeLocationId, userLocations) IN
  /\ \A c \in Charts : ~charts[c].empty /\ charts[c].loc = loc
  /\ \A l \in Loaders :
       LoaderCards(l) # NoContainer =>
         cards[LoaderCards(l)].kind = "cards" /\ cards[LoaderCards(l)].loc = loc

\* C26: after the last change of the active location, if the saved list
\* contains it, the interval keeps firing and every fetch is answered with
\* data, then from some point on every chart and card shows data fetched for
\* the active location.
C26_Converges ==
  <>[](ResolveLocationId(activeLocationId, userLocations) # NoLocation => AllShowActive)

\* C26 witness: the user has moved away from the primary location, every
\* fetch of the last cycle has been answered and everything shows the
\* location chosen.
C26_Witness ==
  /\ activeLocationId # NoLocation
  /\ activeLocationId # PopulateLocationSelector(userLocations).active
  /\ cycle = MaxCycles
  /\ inflight = {}
  /\ AllShowActive

\* C27: in every state after the location selector has been populated, the
\* option shown as selected and the active location agree, and the active
\* location is one of the current saved-location list; also when no saved
\* location is primary, when a saved location has no available location, and
\* after a location is removed in settings.
C27_SelectorAgreesWithActive ==
  (pc = "loaded" /\ selectOptions # {})
  => /\ selectValue = activeLocationId
     /\ \E i \in 1..Len(userLocations) :
          userLocations[i].user_location_id = activeLocationId

\* C28: the refresh pipeline is started only for an authenticated session
\* whose user data was fetched: without a stored token, or when the
\* user-data request is answered with 401, initialization stops there, no
\* refresh cycle is run and no interval is registered.
C28_PipelineNeedsSession ==
  /\ [](pc = "stopped" => cycle = 0 /\ intervals = 0)
  /\ [][(pc = "awaitSettings" /\ ~token) =>
          (pc' = "stopped" /\ cycle' = cycle /\ intervals' = intervals)]_vars

\* C29: once a 401 answer to a domain fetch has cleared the stored
\* credentials, no later fetch issues a request: every refresh that follows
\* adds no fetch and its loaders fail at once with fetchData's message, and
\* nothing in the page stores a token again.
C29_NoRequestAfter401 ==
  /\ [][\A f \in inflight \ inflight' :
          (\E resp \in {r \in LaunchResponses : r.status = 401} : Settle(f, resp))
            => ~token']_vars
  /\ [][~token =>
          /\ ~token'
          /\ inflight' \subseteq inflight
          /\ (RefreshStep /\ ActiveIsSaved)
               => \A l \in Loaders :
                    ErrorSlot(l) # NoContainer
                      => cards'[ErrorSlot(l)] = ErrorCards(NoTokenMessage)]_vars

\* C29 witness: the daily fetch of the first cycle was answered with data and
\* the climate fetch with 401; the interval then fired without a token and
\* every loader failed without a request.
C29_Witness ==
  /\ pc = "loaded"
  /\ ~token
  /\ redirected
  /\ cycle = MaxCycles
  /\ inflight = {}
  /\ ~charts["weatherDailyChart"].empty
  /\ cards["climateModelInfo"] = ErrorCards(NoTokenMessage)

\* C30: the first refresh starts only after the loading of the available
\* and saved locations has finished, after the active location has been set
\* from them and after every chart has been created: no fetch is issued and
\* no cycle counted before, the first refresh fetches for the location the
\* selector made active, every fetch in flight is for a location of the
\* list, and a response only ever changes a chart that exists.
C30_InitializationOrder ==
  /\ [](pc # "loaded" => cycle = 0 /\ inflight = {})
  /\ [](cycle > 0 => \A c \in Charts : instances[c] = 1)
  /\ [](\A f \in inflight :
          \E i \in 1..Len(userLocations) : userLocations[i].location_id = f.locationId)
  /\ [][(pc = "awaitSettings" /\ pc' = "loaded")
          => /\ cycle' = 1
             /\ (token /\ ResolveLocationId(activeLocationId', userLocations') # NoLocation)
                  => \A l \in Loaders :
                       Fetch(l, 1, ResolveLocationId(activeLocationId', userLocations'))
                         \in inflight']_vars
  /\ [][\A c \in Charts : charts'[c] # charts[c] => instances[c] = 1]_vars

\* C30 witness: the page is loaded, every chart exists, and the fetches of
\* the first refresh are outstanding for the active location.
C30_Witness ==
  /\ pc = "loaded"
  /\ cycle = 1
  /\ activeLocationId # NoLocation
  /\ \A c \in Charts : instances[c] = 1 /\ charts[c].empty
  /\ \A l \in Loaders :
       Fetch(l, 1, ResolveLocationId(activeLocationId, userLocations)) \in inflight

====
